---- MODULE Spec2Model ----
(***************************************************************************)
(* Fingerprint encoders of Ensemble/fingerprints.py: get_ecfp, get_ecfc,   *)
(* get_maccs and get_secfp.  One call is stepped through its statements:   *)
(* the row loop, the construction of the DataFrame, the test of            *)
(* erroneous_smiles, the print, the dropna and the return.                 *)
(***************************************************************************)
EXTENDS Integers, Sequences, FiniteSets, TLC

VARIABLES fn, smiles_list, radius, nBits, useCounts,
          pc, fingerprints, erroneous_smiles, df, stdout

vars == <<fn, smiles_list, radius, nBits, useCounts,
          pc, fingerprints, erroneous_smiles, df, stdout>>

-----------------------------------------------------------------------------
(* Bounds of the model and constants of the program *)

MaxList == 2
SmallWidth == 4
WidthStep == 1

DefaultRadius == 2
DefaultNBits == 2048
SecfpDefaultRadius == 3
MaccsWidth == 167
SecfpLength == 2048
\* the default of useCounts in get_ecfc
EcfcDefaultUseCounts == TRUE

ValidSmiles == {"CCCC", "CO"}
SmilesAlphabet == ValidSmiles \cup {"XXXX"}

RECURSIVE ListsUpTo(_)
ListsUpTo(n) ==
    IF n = 0 THEN {<<>>}
    ELSE LET shorter == ListsUpTo(n - 1) IN
         shorter \cup {Append(l, s) : l \in {m \in shorter : Len(m) = n - 1},
                                      s \in SmilesAlphabet}

SmilesLists == ListsUpTo(MaxList)
Radii == {DefaultRadius, SecfpDefaultRadius}
\* nBits of get_ecfp and get_ecfc; of get_secfp, around the length of line 157
Widths == {SmallWidth, DefaultNBits}
SecfpWidths == {SmallWidth, SecfpLength, SecfpLength + WidthStep}

-----------------------------------------------------------------------------
(* Cells of a row: Python objects before the DataFrame, values of a column *)
(* after it.  A float cell holds a whole number here (an int made float).  *)

IntCell(n) == [t |-> "int", v |-> n]
FloatCell(n) == [t |-> "float", v |-> n]
StrCell(s) == [t |-> "str", v |-> s]
NoneCell == [t |-> "None"]
NaNCell == [t |-> "NaN"]

isna(c) == c.t \in {"None", "NaN"}

\* [None]*n
NoneRow(n) == [j \in 1..n |-> NoneCell]

-----------------------------------------------------------------------------
(* The chemistry toolkit (rdkit, mhfp), as far as the encoders use it *)

NoMol == [ok |-> FALSE, smiles |-> "", Hs |-> FALSE]

\* Chem.MolFromSmiles: None for a string that is no SMILES
MolFromSmiles(s) ==
    IF s \in ValidSmiles THEN [ok |-> TRUE, smiles |-> s, Hs |-> FALSE] ELSE NoMol

\* Chem.AddHs: a Boost.Python ArgumentError for None
AddHsRaises(mol) == mol = NoMol
AddHs(mol) == [mol EXCEPT !.Hs = TRUE]

\* atom invariants of the molecule, the hydrogens after the heavy atoms
Atoms(mol) ==
    LET heavy == IF mol.smiles = "CCCC" THEN <<61, 62, 62, 61>> ELSE <<63, 81>>
        hydrogens == IF mol.smiles = "CCCC"
                     THEN <<11, 11, 11, 12, 12, 12, 12, 11, 11, 11>>
                     ELSE <<13, 13, 13, 14>>
    IN  IF mol.Hs THEN heavy \o hydrogens ELSE heavy

\* identifier of the environment of the given radius around an atom
EnvId(atom, layer) == atom * 1009 + layer * 4099

\* the circular environments of radius 0..r, one per atom and layer
MorganEnvs(mol, r) ==
    LET atoms == Atoms(mol)
        n == Len(atoms)
    IN  [k \in 1..(n * (r + 1)) |-> EnvId(atoms[((k - 1) % n) + 1], (k - 1) \div n)]

\* AllChem.GetHashedMorganFingerprint: counts of the environments folded into
\* nBits buckets; iterating it gives nBits ints
GetHashedMorganFingerprint(mol, r, n) ==
    LET envs == MorganEnvs(mol, r)
        hit == {envs[k] % n : k \in DOMAIN envs}
    IN  [j \in 1..n |-> IF (j - 1) \in hit
                        THEN Cardinality({k \in DOMAIN envs : envs[k] % n = j - 1})
                        ELSE 0]

\* AllChem.GetMorganFingerprintAsBitVect: the buckets that are hit
GetMorganFingerprintAsBitVect(mol, r, n) ==
    LET hit == {MorganEnvs(mol, r)[k] % n : k \in DOMAIN MorganEnvs(mol, r)} IN
    [j \in 1..n |-> IF (j - 1) \in hit THEN 1 ELSE 0]

\* ExplicitBitVect.ToBitString: one character per bit
ToBitString(bv) == [j \in DOMAIN bv |-> IF bv[j] = 1 THEN "1" ELSE "0"]

\* AllChem.GetMACCSKeysFingerprint: 167 bits, bit 0 unused
GetMACCSKeysFingerprint(mol) ==
    LET keys == {a + 50 : a \in {Atoms(mol)[k] : k \in DOMAIN Atoms(mol)}} IN
    [j \in 1..MaccsWidth |-> IF (j - 1) \in keys THEN 1 ELSE 0]

\* MHFPEncoder.secfp_from_mol: the hashed shingles folded into `length` bits
secfp_from_mol(mol, length, r) ==
    LET hit == {MorganEnvs(mol, r)[k] % length : k \in DOMAIN MorganEnvs(mol, r)} IN
    [j \in 1..length |-> IF (j - 1) \in hit THEN 1 ELSE 0]

\* list(...) of a vector of ints, of a string
ListOfInts(vec) == [j \in DOMAIN vec |-> IntCell(vec[j])]
ListOfChars(str) == [j \in DOMAIN str |-> StrCell(str[j])]

-----------------------------------------------------------------------------
(* pandas *)

RECURSIVE MaxLen(_)
MaxLen(rows) ==
    IF rows = <<>> THEN 0
    ELSE LET m == MaxLen(Tail(rows)) IN
         IF Len(Head(rows)) > m THEN Len(Head(rows)) ELSE m

\* the dtype of a column of objects: float64 when it holds ints and nulls
\* (the ints become floats, None becomes NaN), unchanged otherwise
ConvertCell(c, kinds) ==
    IF kinds = {"int", "None"}
    THEN (IF c.t = "int" THEN FloatCell(c.v) ELSE NaNCell)
    ELSE c

\* the function as a tuple, its elements evaluated once
Tuple(f) == f \o <<>>

\* pd.DataFrame(data = rows, index = index): short rows are filled with None
\* up to the longest row, then each column is converted
DataFrame(data, index) ==
    LET ncols == MaxLen(data)
        lens == Tuple([k \in DOMAIN data |-> Len(data[k])])
        cell(k, j) == IF j <= lens[k] THEN data[k][j] ELSE NoneCell
        kinds == Tuple([j \in 1..ncols |-> {cell(k, j).t : k \in DOMAIN data}])
    IN  [k \in DOMAIN index |->
            [key |-> index[k],
             row |-> [j \in 1..ncols |-> ConvertCell(cell(k, j), kinds[j])]]]

HasNull(row) == \E j \in DOMAIN row : isna(row[j])

\* the result of dropna not assigned back
dropna_unassigned(frame) == frame

\* DataFrame.dropna(how='any')
dropna(frame) == SelectSeq(frame, LAMBDA r : ~HasNull(r.row))

Header == "The following erroneous SMILES have been found in the data:"
Footer == "The erroneous SMILES will be removed from the data."

\* only the first erroneous string reported
Message_first(erroneous) == [head |-> Header, lines |-> <<erroneous[1]>>, tail |-> Footer]

\* the text printed at lines 50, 93, 126, 163: '\n'.join(map(str, erroneous))
\* between the two sentences
Message(erroneous) == [head |-> Header, lines |-> erroneous, tail |-> Footer]

-----------------------------------------------------------------------------
(* The body of the row loop of each encoder: the row appended to the list  *)
(* of fingerprints, the strings appended to erroneous_smiles, and whether  *)
(* a call of the toolkit raised.                                           *)

Appended(row, err) == [row |-> row, err |-> err, raised |-> FALSE]
Raised == [row |-> <<>>, err |-> <<>>, raised |-> TRUE]

ecfp_body(smiles, r, n, counts) ==
    LET mol == MolFromSmiles(smiles) IN
    IF mol = NoMol THEN Appended(NoneRow(n), <<smiles>>)
    ELSE IF AddHsRaises(mol) THEN Raised
    ELSE IF counts
         THEN Appended(ListOfInts(GetHashedMorganFingerprint(AddHs(mol), r, n)), <<>>)
         ELSE Appended(ListOfChars(ToBitString(
                          GetMorganFingerprintAsBitVect(AddHs(mol), r, n))), <<>>)

\* useCounts ignored
ecfc_body_counts_only(smiles, r, n, counts) == ecfp_body(smiles, r, n, TRUE)

ecfc_body(smiles, r, n, counts) ==
    LET mol == MolFromSmiles(smiles) IN
    IF mol = NoMol THEN Appended(NoneRow(n), <<smiles>>)
    ELSE IF AddHsRaises(mol) THEN Raised
    ELSE IF counts
         THEN Appended(ListOfInts(GetHashedMorganFingerprint(AddHs(mol), r, n)), <<>>)
         ELSE Appended(ListOfChars(ToBitString(
                          GetMorganFingerprintAsBitVect(AddHs(mol), r, n))), <<>>)

maccs_body(smiles) ==
    LET mol == MolFromSmiles(smiles) IN
    IF mol = NoMol THEN Appended(NoneRow(MaccsWidth), <<smiles>>)
    ELSE IF AddHsRaises(mol) THEN Raised
    ELSE Appended(ListOfInts(GetMACCSKeysFingerprint(AddHs(mol))), <<>>)

\* the test `mol is None` left out: AddHs is called with None
secfp_body_unchecked(smiles, r, n) ==
    LET mol == MolFromSmiles(smiles) IN
    IF AddHsRaises(mol) THEN Raised
    ELSE Appended(ListOfInts(secfp_from_mol(AddHs(mol), SecfpLength, r)), <<>>)

secfp_body(smiles, r, n) ==
    LET mol == MolFromSmiles(smiles) IN
    IF mol = NoMol THEN Appended(NoneRow(n), <<smiles>>)
    ELSE IF AddHsRaises(mol) THEN Raised
    ELSE Appended(ListOfInts(secfp_from_mol(AddHs(mol), SecfpLength, r)), <<>>)

Body(f, smiles, r, n, counts) ==
    CASE f = "get_ecfp" -> ecfp_body(smiles, r, n, counts)
      [] f = "get_ecfc" -> ecfc_body(smiles, r, n, counts)
      [] f = "get_maccs" -> maccs_body(smiles)
      [] f = "get_secfp" -> secfp_body(smiles, r, n)

-----------------------------------------------------------------------------
(* One call, statement by statement *)

Init ==
    /\ fn = "none"
    /\ smiles_list = <<>>
    /\ radius = 0
    /\ nBits = 0
    /\ useCounts = FALSE
    /\ pc = "idle"
    /\ fingerprints = <<>>
    /\ erroneous_smiles = <<>>
    /\ df = <<>>
    /\ stdout = <<>>

Enter(f, l, r, n, counts) ==
    /\ pc = "idle"
    /\ fn' = f
    /\ smiles_list' = l
    /\ radius' = r
    /\ nBits' = n
    /\ useCounts' = counts
    /\ pc' = "loop"
    /\ fingerprints' = <<>>
    /\ erroneous_smiles' = <<>>
    /\ df' = <<>>
    /\ stdout' = <<>>

call_get_ecfp ==
    \E l \in SmilesLists, r \in Radii, n \in Widths, counts \in BOOLEAN :
        Enter("get_ecfp", l, r, n, counts)

call_get_ecfc ==
    \E l \in SmilesLists, r \in Radii, n \in Widths, counts \in BOOLEAN :
        Enter("get_ecfc", l, r, n, counts)

\* get_maccs has no radius, nBits or useCounts
call_get_maccs ==
    \E l \in SmilesLists : Enter("get_maccs", l, 0, MaccsWidth, FALSE)

\* get_secfp has no useCounts
call_get_secfp ==
    \E l \in SmilesLists, r \in Radii, n \in SecfpWidths :
        Enter("get_secfp", l, r, n, FALSE)

\* one iteration of `for smiles in smiles_list`
LoopIteration ==
    /\ pc = "loop"
    /\ Len(fingerprints) < Len(smiles_list)
    /\ LET smiles == smiles_list[Len(fingerprints) + 1]
           b == Body(fn, smiles, radius, nBits, useCounts)
       IN  IF b.raised
           THEN /\ pc' = "raised"
                /\ UNCHANGED <<fingerprints, erroneous_smiles>>
           ELSE /\ fingerprints' = Append(fingerprints, b.row)
                /\ erroneous_smiles' = erroneous_smiles \o b.err
                /\ pc' = "loop"
    /\ UNCHANGED <<fn, smiles_list, radius, nBits, useCounts, df, stdout>>

\* df = pd.DataFrame(data = fingerprints, index = smiles_list)
CreateDataFrame ==
    /\ pc = "loop"
    /\ Len(fingerprints) = Len(smiles_list)
    /\ df' = DataFrame(fingerprints, smiles_list)
    /\ pc' = "test"
    /\ UNCHANGED <<fn, smiles_list, radius, nBits, useCounts,
                   fingerprints, erroneous_smiles, stdout>>

\* if len(erroneous_smiles)>0: print(...)
PrintErroneous ==
    /\ pc = "test"
    /\ Len(erroneous_smiles) > 0
    /\ stdout' = Append(stdout, Message(erroneous_smiles))
    /\ pc' = "dropna"
    /\ UNCHANGED <<fn, smiles_list, radius, nBits, useCounts,
                   fingerprints, erroneous_smiles, df>>

\* df = df.dropna(how='any')
DropNa ==
    /\ pc = "dropna"
    /\ df' = dropna(df)
    /\ pc' = "return"
    /\ UNCHANGED <<fn, smiles_list, radius, nBits, useCounts,
                   fingerprints, erroneous_smiles, stdout>>

\* the test of line 49 fails: nothing is printed, nothing dropped
SkipRemoval ==
    /\ pc = "test"
    /\ Len(erroneous_smiles) = 0
    /\ pc' = "return"
    /\ UNCHANGED <<fn, smiles_list, radius, nBits, useCounts,
                   fingerprints, erroneous_smiles, df, stdout>>

\* return df
Return ==
    /\ pc = "return"
    /\ pc' = "returned"
    /\ UNCHANGED <<fn, smiles_list, radius, nBits, useCounts,
                   fingerprints, erroneous_smiles, df, stdout>>

Next ==
    \/ call_get_ecfp
    \/ call_get_ecfc
    \/ call_get_maccs
    \/ call_get_secfp
    \/ LoopIteration
    \/ CreateDataFrame
    \/ PrintErroneous
    \/ DropNa
    \/ SkipRemoval
    \/ Return

Spec == Init /\ [][Next]_vars

-----------------------------------------------------------------------------
(* A whole call as a function of its arguments: the table returned and the *)
(* text printed.                                                           *)

RECURSIVE Loop(_, _, _, _, _)
Loop(f, l, r, n, counts) ==
    IF l = <<>> THEN [fps |-> <<>>, err |-> <<>>]
    ELSE LET b == Body(f, Head(l), r, n, counts)
             rest == Loop(f, Tail(l), r, n, counts)
         IN  [fps |-> <<b.row>> \o rest.fps, err |-> b.err \o rest.err]

Encode(f, l, r, n, counts) ==
    LET loop == Loop(f, l, r, n, counts)
        frame == DataFrame(loop.fps, l)
    IN  IF Len(loop.err) > 0
        THEN [ret |-> dropna(frame), out |-> <<Message(loop.err)>>]
        ELSE [ret |-> frame, out |-> <<>>]

get_ecfp(l, r, n, counts) == Encode("get_ecfp", l, r, n, counts)

-----------------------------------------------------------------------------
(* Vocabulary of the properties *)

Returned == pc = "returned"
Parses(s) == s \in ValidSmiles
ParsedInputs == SelectSeq(smiles_list, LAMBDA s : Parses(s))
RejectedInputs == SelectSeq(smiles_list, LAMBDA s : ~Parses(s))
Keys(frame) == [k \in DOMAIN frame |-> frame[k].key]
Occurrences(l, s) == Cardinality({k \in DOMAIN l : l[k] = s})
RowsOf(frame, s) == {k \in DOMAIN frame : frame[k].key = s}

\* a call that was entered and has not returned
InProgress == pc \in {"loop", "test", "dropna", "return"}

\* the statements a call has yet to execute, at most
StepsLeft ==
    CASE pc = "loop" -> (Len(smiles_list) - Len(fingerprints)) + 4
      [] pc = "test" -> 3
      [] pc = "dropna" -> 2
      [] pc = "return" -> 1
      [] OTHER -> 0

\* the configured width of the call
Width == IF fn = "get_maccs" THEN MaccsWidth ELSE nBits

\* the value of a cell, whatever the dtype of its column
Value(c) ==
    IF c.t \in {"int", "float"} THEN [t |-> "number", v |-> c.v]
    ELSE IF isna(c) THEN [t |-> "null"]
    ELSE c
Values(row) == [j \in DOMAIN row |-> Value(row[j])]

TypeOK ==
    /\ pc \in {"idle", "loop", "test", "dropna", "return", "returned", "raised"}
    /\ Len(fingerprints) <= Len(smiles_list)

-----------------------------------------------------------------------------
(* Properties *)

\* C1: every input that parses has a row in the returned table: the number
\* of returned rows equals the number of inputs that parsed, and only rows
\* of inputs that failed to parse are missing.
C1_EveryParsedInputHasARow ==
    Returned => /\ Len(df) = Len(ParsedInputs)
                /\ \A k \in DOMAIN df : Parses(df[k].key)

\* C2: every input the parser rejects has no row in the returned table and
\* is named in the diagnostic printed by the call.
C2_RejectedAbsentAndReported ==
    Returned =>
        \A k \in DOMAIN smiles_list :
            ~Parses(smiles_list[k]) =>
                /\ RowsOf(df, smiles_list[k]) = {}
                /\ \E m \in DOMAIN stdout :
                       \E i \in DOMAIN stdout[m].lines :
                           stdout[m].lines[i] = smiles_list[k]

C2_Witness ==
    /\ Returned
    /\ RejectedInputs # <<>>
    /\ ParsedInputs # <<>>
    /\ Len(df) = Len(ParsedInputs)

\* C3: every returned row has exactly nBits entries (167 for get_maccs) and
\* no null entry.
C3_WidthInvariant ==
    Returned => \A k \in DOMAIN df : /\ Len(df[k].row) = Width
                                     /\ ~HasNull(df[k].row)

\* C4: get_ecfc returns the table and prints the text get_ecfp returns and
\* prints for the same arguments; with its default flag it is get_ecfp with
\* useCounts=True.
C4_EcfcIsEcfp ==
    (Returned /\ fn = "get_ecfc") =>
        /\ LET e == get_ecfp(smiles_list, radius, nBits, useCounts)
           IN  df = e.ret /\ stdout = e.out
        /\ useCounts = EcfcDefaultUseCounts =>
               df = get_ecfp(smiles_list, radius, nBits, TRUE).ret

C4_Witness ==
    /\ Returned
    /\ fn = "get_ecfc"
    /\ Len(df) >= 1
    /\ Len(stdout) = 1
    /\ \E j \in DOMAIN df[1].row : Value(df[1].row[j]) = [t |-> "number", v |-> 2]

\* C5: the cells of the table of get_ecfp are the integers 0 and 1 with
\* useCounts=False, non-negative integers with useCounts=True.
C5_CellValues ==
    (Returned /\ fn = "get_ecfp") =>
        \A k \in DOMAIN df : \A j \in DOMAIN df[k].row :
            LET c == df[k].row[j] IN
            IF useCounts
            THEN Value(c).t = "number" /\ c.v >= 0
            ELSE c \in {IntCell(0), IntCell(1)}

\* C6: the row keys of the returned table are the inputs that parse, in the
\* order of the input list.
C6_OrderPreserved == Returned => Keys(df) = ParsedInputs

C9_DuplicatesKept ==
    Returned =>
        \A s \in SmilesAlphabet :
            /\ Cardinality(RowsOf(df, s)) =
                   (IF Parses(s) THEN Occurrences(smiles_list, s) ELSE 0)
            /\ \A a, b \in RowsOf(df, s) : df[a].row = df[b].row

\* C10: the row of an input that parses does not depend on the other
\* inputs: it is there, with the values of the row of the call on that
\* input alone.
C10_RowIndependent ==
    Returned =>
        \A s \in ValidSmiles :
            Occurrences(smiles_list, s) > 0 =>
                LET alone == Encode(fn, <<s>>, radius, nBits, useCounts).ret IN
                /\ Len(alone) = 1
                /\ RowsOf(df, s) # {}
                /\ \A k \in RowsOf(df, s) :
                       Values(df[k].row) = Values(alone[1].row)
====
